---------------------------- MODULE Spec2Model ----------------------------
(***************************************************************************)
(* A model of the generic slice toolkit of utils/datautil/datautil.go.     *)
(*                                                                         *)
(* The package is a set of stateless functions that share nothing, so a    *)
(* behaviour is one call.  The state of the model is that call: which      *)
(* function was called (call), with which arguments (args), what it        *)
(* returned (ret), whether it panicked (panicked), and what the slice the  *)
(* caller passed holds once the call is over (mem): the caller's slice     *)
(* header keeps its length, so mem is the caller's view of the backing     *)
(* array the call may have written to.  Every function is an operator that *)
(* computes what the Go code computes, loop by loop; every action draws    *)
(* the arguments of one call from bounded sets and applies the function.   *)
(*                                                                         *)
(* A Go slice is a sequence; Go's index i is index i+1 here.  A Go map is  *)
(* a set of keys (map[K]struct{}) or a function on its keys.  A `range`    *)
(* over a map visits the keys in an order the runtime chooses: the model   *)
(* draws that order from all permutations of the keys.                     *)
(***************************************************************************)
EXTENDS Integers, Sequences, FiniteSets, TLC

\* ------------------------------------------------------------- bounds
\* Longest slice an action draws.
MaxLen == 4
\* Longest second slice of a call that takes two (b of the set operations, the
\* reference keys of Order), and longest slice handed to Single and Complete.
MaxOther == 3
\* Number of slices handed to BothExist / BothExistAny, and their length.
MaxLists == 3
MaxInner == 2
\* Longest variadic argument list (index... of Delete, delEs... of DeleteElems).
MaxArgs == 2

\* The comparable keys (type parameter E / K of the source).
Keys == {1, 2, 3}

\* ------------------------------------------------------------ helpers
SeqsUpTo(S, n) == UNION {[1..m -> S] : m \in 0..n}

Range(s) == {s[i] : i \in 1..Len(s)}

\* All orders in which a `range` over a map with key set S may visit it.
Perms(S) == {p \in [1..Cardinality(S) -> S] : Range(p) = S}

\* The element type T of the generic functions: the functions never look
\* inside an element except through the key function, so an element is its
\* key together with the position it had in the input (which tells equal-keyed
\* elements apart in the output).
T == [k : Keys, i : 1..MaxLen]
\* A second element type V, for the two-typed functions.
V == [id : Keys]

\* []T whose keys are ks, each element tagged with its position.
Tagged(ks) == [i \in 1..Len(ks) |-> [k |-> ks[i], i |-> i]]
\* []V whose keys are ks.
Ided(ks) == [i \in 1..Len(ks) |-> [id |-> ks[i]]]

\* The key functions the callers pass.
KeyOfT == [t \in T |-> t.k]
KeyOfV == [v \in V |-> v.id]
Identity == [e \in Keys |-> e]

KeysOf(s, fn) == [i \in 1..Len(s) |-> fn[s[i]]]

\* -------------------------------------------------------------- state
VARIABLES call, args, ret, panicked, mem

vars == <<call, args, ret, panicked, mem>>

Init ==
    /\ call = "none"
    /\ args = <<>>
    /\ ret = <<>>
    /\ panicked = FALSE
    /\ mem = <<>>

\* ------------------------------------------------------ SliceSubFuncs
\* The loop over a (lines 42-52): t is the map of keys already emitted,
\* k the map of b's keys, rs the result so far.
RECURSIVE SubLoop(_, _, _, _, _, _)
SubLoop(a, fna, k, i, t, rs) ==
    IF i > Len(a) THEN rs
    ELSE LET e == fna[a[i]] IN
         IF e \in t THEN SubLoop(a, fna, k, i + 1, t, rs)
         ELSE IF e \in k THEN SubLoop(a, fna, k, i + 1, t, rs)
         ELSE SubLoop(a, fna, k, i + 1, t \cup {e}, Append(rs, a[i]))

SliceSubFuncs(a, b, fna, fnb) ==
    IF Len(b) = 0 THEN a
    ELSE SubLoop(a, fna, {fnb[b[i]] : i \in 1..Len(b)}, 1, {}, <<>>)

SliceSubFunc(a, b, fn) == SliceSubFuncs(a, b, fn, fn)

SliceSub(a, b) == SliceSubFunc(a, b, Identity)

\* Slice converts a slice element by element (lines 346-352).
Slice(es, fn) == [i \in 1..Len(es) |-> fn[es[i]]]

SliceSubAny(a, b, fn) == SliceSub(a, Slice(b, fn))

SliceSubConvertPre(a, b, fn) == SliceSubFuncs(a, b, fn, Identity)

CallSliceSubFuncs ==
    /\ call = "none"
    /\ \E ka \in SeqsUpTo(Keys, MaxLen), kb \in SeqsUpTo(Keys, MaxOther) :
        /\ call' = "SliceSubFuncs"
        /\ args' = [a |-> Tagged(ka), b |-> Ided(kb), ka |-> ka, kb |-> kb, tagged |-> TRUE]
        /\ ret' = SliceSubFuncs(Tagged(ka), Ided(kb), KeyOfT, KeyOfV)
        /\ panicked' = FALSE
        /\ mem' = Tagged(ka)

CallSliceSubFunc ==
    /\ call = "none"
    /\ \E ka \in SeqsUpTo(Keys, MaxLen), kb \in SeqsUpTo(Keys, MaxOther) :
        /\ call' = "SliceSubFunc"
        /\ args' = [a |-> Tagged(ka), b |-> Tagged(kb), ka |-> ka, kb |-> kb, tagged |-> TRUE]
        /\ ret' = SliceSubFunc(Tagged(ka), Tagged(kb), KeyOfT)
        /\ panicked' = FALSE
        /\ mem' = Tagged(ka)

CallSliceSub ==
    /\ call = "none"
    /\ \E ka \in SeqsUpTo(Keys, MaxLen), kb \in SeqsUpTo(Keys, MaxOther) :
        /\ call' = "SliceSub"
        /\ args' = [a |-> ka, b |-> kb, ka |-> ka, kb |-> kb, tagged |-> FALSE]
        /\ ret' = SliceSub(ka, kb)
        /\ panicked' = FALSE
        /\ mem' = ka

CallSliceSubAny ==
    /\ call = "none"
    /\ \E ka \in SeqsUpTo(Keys, MaxLen), kb \in SeqsUpTo(Keys, MaxOther) :
        /\ call' = "SliceSubAny"
        /\ args' = [a |-> ka, b |-> Ided(kb), ka |-> ka, kb |-> kb, tagged |-> FALSE]
        /\ ret' = SliceSubAny(ka, Ided(kb), KeyOfV)
        /\ panicked' = FALSE
        /\ mem' = ka

CallSliceSubConvertPre ==
    /\ call = "none"
    /\ \E ka \in SeqsUpTo(Keys, MaxLen), kb \in SeqsUpTo(Keys, MaxOther) :
        /\ call' = "SliceSubConvertPre"
        /\ args' = [a |-> Tagged(ka), b |-> kb, ka |-> ka, kb |-> kb, tagged |-> TRUE]
        /\ ret' = SliceSubConvertPre(Tagged(ka), kb, KeyOfT)
        /\ panicked' = FALSE
        /\ mem' = Tagged(ka)

NextSub ==
    \/ CallSliceSubFuncs
    \/ CallSliceSubFunc
    \/ CallSliceSub
    \/ CallSliceSubAny
    \/ CallSliceSubConvertPre

SpecSub == Init /\ [][NextSub]_vars

\* The calls C1 names, and the key of a result element.
SubCalls == {"SliceSubFuncs", "SliceSubFunc", "SliceSub", "SliceSubConvertPre"}

ElemKey(e) == IF args.tagged THEN e.k ELSE e

RetKeys == [i \in 1..Len(ret) |-> ElemKey(ret[i])]

NoDupKeys(ks) == \A i, j \in 1..Len(ks) : ks[i] = ks[j] => i = j

\* The indices of ks that hold the first occurrence of a key of K.
FirstIdx(ks, K) ==
    {i \in 1..Len(ks) : ks[i] \in K /\ \A j \in 1..(i - 1) : ks[j] # ks[i]}

\* The elements of s at the indices I, in s's order.
RECURSIVE Pick(_, _, _)
Pick(s, I, i) ==
    IF i > Len(s) THEN <<>>
    ELSE IF i \in I THEN <<s[i]>> \o Pick(s, I, i + 1)
    ELSE Pick(s, I, i + 1)

\* C1: the result of SliceSubFuncs(a, b, fna, fnb) and of its wrappers holds no
\* element whose key is a key of b, no two elements with the same key, and is the
\* subsequence of a made of the first occurrence of each surviving key -- for
\* every a and b, b empty included.
C1_SubNoDupNoB ==
    call \in SubCalls =>
        /\ \A i \in 1..Len(ret) : RetKeys[i] \notin Range(args.kb)
        /\ NoDupKeys(RetKeys)
        /\ ret = Pick(args.a, FirstIdx(args.ka, Keys \ Range(args.kb)), 1)

\* Reached: a call with b empty and a repeated key in a, the case the code
\* short-circuits.
C1_Witness ==
    /\ call \in SubCalls
    /\ Len(args.kb) = 0
    /\ ~NoDupKeys(args.ka)

\* ------------------------------------------------ SliceIntersectFuncs
\* t[e] for t a map[E]struct{} (line 80): the value stored under e if e is a
\* key of t and the zero value of struct{} if it is not; both are struct{}{}.
EmptyStruct == "struct{}{}"

StructMapGet(t, e) == IF e \in t THEN EmptyStruct ELSE EmptyStruct

\* The loop over a (lines 76-84): k is the map of b's keys, t the map of the
\* keys already emitted, rs the result so far.
RECURSIVE IntersectLoop(_, _, _, _, _, _)
IntersectLoop(a, fna, k, i, t, rs) ==
    IF i > Len(a) THEN rs
    ELSE LET e == fna[a[i]] IN
         IF e \in k /\ StructMapGet(t, e) = EmptyStruct
         THEN IntersectLoop(a, fna, k, i + 1, t \cup {e}, Append(rs, a[i]))
         ELSE IntersectLoop(a, fna, k, i + 1, t, rs)

\* A nil slice is the empty sequence.
SliceIntersectFuncs(a, b, fna, fnb) ==
    IF Len(b) = 0 THEN <<>>
    ELSE IntersectLoop(a, fna, {fnb[b[i]] : i \in 1..Len(b)}, 1, {}, <<>>)

CallSliceIntersectFuncs ==
    /\ call = "none"
    /\ \E ka \in SeqsUpTo(Keys, MaxLen), kb \in SeqsUpTo(Keys, MaxOther) :
        /\ call' = "SliceIntersectFuncs"
        /\ args' = [a |-> Tagged(ka), b |-> Ided(kb), ka |-> ka, kb |-> kb, tagged |-> TRUE]
        /\ ret' = SliceIntersectFuncs(Tagged(ka), Ided(kb), KeyOfT, KeyOfV)
        /\ panicked' = FALSE
        /\ mem' = Tagged(ka)

NextIntersect == CallSliceIntersectFuncs

SpecIntersect == Init /\ [][NextIntersect]_vars

\* C2: SliceIntersectFuncs(a, b, fna, fnb) is exactly the elements of a whose key
\* is a key of b, one per key (the first occurrence in a), in a's order; it is
\* empty when b is empty.
C2_IntersectDedup ==
    call = "SliceIntersectFuncs" =>
        /\ NoDupKeys(RetKeys)
        /\ ret = Pick(args.a, FirstIdx(args.ka, Range(args.kb)), 1)
        /\ (Len(args.kb) = 0 => ret = <<>>)

\* Reached: a key of b occurs twice in a.
C2_Witness ==
    /\ call = "SliceIntersectFuncs"
    /\ \E i, j \in 1..Len(args.ka) :
           i # j /\ args.ka[i] = args.ka[j] /\ args.ka[i] \in Range(args.kb)

\* -------------------------------------------------------------- Order
\* The first loop (lines 595-599): kv maps a key to the elements of ts with
\* that key, in ts's order.
RECURSIVE OrderGroup(_, _, _, _)
OrderGroup(ts, fn, i, kv) ==
    IF i > Len(ts) THEN kv
    ELSE LET t == ts[i]
             k == fn[t]
         IN  IF k \in DOMAIN kv
             THEN OrderGroup(ts, fn, i + 1, [kv EXCEPT ![k] = Append(@, t)])
             ELSE OrderGroup(ts, fn, i + 1, kv @@ (k :> <<t>>))

\* delete(kv, e)
MapDelete(kv, e) == [k \in (DOMAIN kv) \ {e} |-> kv[k]]

\* The second loop (lines 601-605): the groups of the keys of es, each taken
\* out of kv as it is emitted.  The result is the pair of rs and what kv still
\* holds.
RECURSIVE OrderByRef(_, _, _, _)
OrderByRef(es, i, kv, rs) ==
    IF i > Len(es) THEN [rs |-> rs, kv |-> kv]
    ELSE LET e == es[i]
             vs == IF e \in DOMAIN kv THEN kv[e] ELSE <<>>
         IN  OrderByRef(es, i + 1, MapDelete(kv, e), rs \o vs)

\* The third loop (lines 606-608), `for k := range kv`: iter is the order in
\* which the runtime visits keys, and the loop meets the keys kv still holds.
RECURSIVE OrderRest(_, _, _, _)
OrderRest(iter, j, kv, rs) ==
    IF j > Len(iter) THEN rs
    ELSE IF iter[j] \in DOMAIN kv
         THEN OrderRest(iter, j + 1, kv, rs \o kv[iter[j]])
         ELSE OrderRest(iter, j + 1, kv, rs)

Order(es, ts, fn, iter) ==
    IF Len(es) = 0 \/ Len(ts) = 0 THEN ts
    ELSE LET kv == OrderGroup(ts, fn, 1, <<>>)
             m == OrderByRef(es, 1, kv, <<>>)
         IN  OrderRest(iter, 1, m.kv, m.rs)

CallOrder ==
    /\ call = "none"
    /\ \E es \in SeqsUpTo(Keys, MaxOther), kt \in SeqsUpTo(Keys, MaxLen), iter \in Perms(Keys) :
        /\ call' = "Order"
        /\ args' = [es |-> es, ts |-> Tagged(kt), kt |-> kt]
        /\ ret' = Order(es, Tagged(kt), KeyOfT, iter)
        /\ panicked' = FALSE
        /\ mem' = Tagged(kt)

\* OrderPtr stores the result through the pointer ts.
CallOrderPtr ==
    /\ call = "none"
    /\ \E es \in SeqsUpTo(Keys, MaxOther), kt \in SeqsUpTo(Keys, MaxLen), iter \in Perms(Keys) :
        /\ call' = "OrderPtr"
        /\ args' = [es |-> es, ts |-> Tagged(kt), kt |-> kt]
        /\ ret' = Order(es, Tagged(kt), KeyOfT, iter)
        /\ panicked' = FALSE
        /\ mem' = Order(es, Tagged(kt), KeyOfT, iter)

NextOrder ==
    \/ CallOrder
    \/ CallOrderPtr

SpecOrder == Init /\ [][NextOrder]_vars

\* The elements of ts whose key is k, in ts's order.
WithKey(ts, kt, k) == Pick(ts, {i \in 1..Len(kt) : kt[i] = k}, 1)

\* The groups of the keys ks[i], ks[i+1], ..., one after the other, a key that
\* occurred before position i contributing nothing.
RECURSIVE Groups(_, _, _, _)
Groups(ks, i, ts, kt) ==
    IF i > Len(ks) THEN <<>>
    ELSE (IF \E j \in 1..(i - 1) : ks[j] = ks[i] THEN <<>> ELSE WithKey(ts, kt, ks[i]))
         \o Groups(ks, i + 1, ts, kt)

\* What C3 says Order returns: the groups of the keys of es in es's order,
\* then the groups of the other keys in the order of their first appearance
\* in ts.
OrderExpected(es, ts, kt) ==
    IF Len(es) = 0 \/ Len(ts) = 0 THEN ts
    ELSE Groups(es, 1, ts, kt)
         \o Groups(Pick(kt, {i \in 1..Len(kt) : kt[i] \notin Range(es)}, 1), 1, ts, kt)

\* C3: Order(es, ts, fn) is determined by its inputs: the groups of the keys of
\* es in es's order, then the elements whose key is not in es, grouped by key in
\* the order of the keys' first appearance in ts; ts itself if es or ts is empty.
\* The order of the appended part does not depend on map iteration order.
C3_OrderDetermined ==
    call \in {"Order", "OrderPtr"} => ret = OrderExpected(args.es, args.ts, args.kt)

\* Reached: two keys of ts are not in es, so the third loop ranges over a map
\* of two keys.
C3_Witness ==
    /\ call = "Order"
    /\ Len(args.es) > 0
    /\ Cardinality(Range(args.kt) \ Range(args.es)) >= 2

\* ----------------------------------------------------------- Distinct
\* The loop of DistinctAny (lines 134-141): tmp is the map of the keys seen.
RECURSIVE DistinctLoop(_, _, _, _, _)
DistinctLoop(es, fn, i, tmp, v) ==
    IF i > Len(es) THEN v
    ELSE LET t == es[i]
             k == fn[t]
         IN  IF k \notin tmp
             THEN DistinctLoop(es, fn, i + 1, tmp \cup {k}, Append(v, t))
             ELSE DistinctLoop(es, fn, i + 1, tmp, v)

DistinctAny(es, fn) == DistinctLoop(es, fn, 1, {}, <<>>)

\* The loop of DistinctAnyGetComparable (lines 148-155) appends the key.
RECURSIVE DistinctKeyLoop(_, _, _, _, _)
DistinctKeyLoop(es, fn, i, tmp, v) ==
    IF i > Len(es) THEN v
    ELSE LET k == fn[es[i]]
         IN  IF k \notin tmp
             THEN DistinctKeyLoop(es, fn, i + 1, tmp \cup {k}, Append(v, k))
             ELSE DistinctKeyLoop(es, fn, i + 1, tmp, v)

DistinctAnyGetComparable(es, fn) == DistinctKeyLoop(es, fn, 1, {}, <<>>)

\* A Distinct that forgets to compare the two elements of a two-element slice.
DistinctNoCompare(ts) ==
    IF Len(ts) < 2 THEN ts
    ELSE IF Len(ts) = 2 THEN ts
    ELSE DistinctAny(ts, Identity)

Distinct(ts) ==
    IF Len(ts) < 2 THEN ts
    ELSE IF Len(ts) = 2
         THEN (IF ts[1] = ts[2] THEN SubSeq(ts, 1, 1) ELSE ts)
         ELSE DistinctAny(ts, Identity)

CallDistinct ==
    /\ call = "none"
    /\ \E ts \in SeqsUpTo(Keys, MaxLen) :
        /\ call' = "Distinct"
        /\ args' = [ts |-> ts]
        /\ ret' = Distinct(ts)
        /\ panicked' = FALSE
        /\ mem' = ts

CallDistinctAny ==
    /\ call = "none"
    /\ \E ks \in SeqsUpTo(Keys, MaxLen) :
        /\ call' = "DistinctAny"
        /\ args' = [es |-> Tagged(ks), ks |-> ks]
        /\ ret' = DistinctAny(Tagged(ks), KeyOfT)
        /\ panicked' = FALSE
        /\ mem' = Tagged(ks)

CallDistinctAnyGetComparable ==
    /\ call = "none"
    /\ \E ks \in SeqsUpTo(Keys, MaxLen) :
        /\ call' = "DistinctAnyGetComparable"
        /\ args' = [es |-> Tagged(ks), ks |-> ks]
        /\ ret' = DistinctAnyGetComparable(Tagged(ks), KeyOfT)
        /\ panicked' = FALSE
        /\ mem' = Tagged(ks)

NextDistinct ==
    \/ CallDistinct
    \/ CallDistinctAny
    \/ CallDistinctAnyGetComparable

SpecDistinct == Init /\ [][NextDistinct]_vars

\* C5: for a slice of any length Distinct(ts) is what the general path
\* DistinctAny(ts, identity) gives, which is the first occurrence of every value
\* of ts in ts's order; and Distinct(Distinct(ts)) = Distinct(ts).
C5_DistinctGeneral ==
    call = "Distinct" =>
        /\ ret = DistinctAny(args.ts, Identity)
        /\ ret = Pick(args.ts, FirstIdx(args.ts, Keys), 1)
        /\ Distinct(ret) = ret

\* Reached: Distinct on a two-element slice of one value, the short-circuit
\* that drops an element without the general path.
C5_Witness ==
    /\ call = "Distinct"
    /\ Len(args.ts) = 2
    /\ args.ts[1] = args.ts[2]
    /\ Len(ret) = 1

\* ------------------------------------------------------------- Delete
\* append(es[:i], es[i+1:]...) for a Go index 0 <= i < len(es) (lines 187 and
\* 239): es[:i] keeps the capacity of es, so the append writes es[i+1:] over
\* es[i:] in the backing array the caller's slice points to.  ret is the slice
\* returned, mem what the caller's slice (same array, its old length) holds
\* afterwards: the tail moved down by one and the last element still in place.
AppendOver(es, i) ==
    [ret |-> SubSeq(es, 1, i) \o SubSeq(es, i + 2, Len(es)),
     mem |-> [j \in 1..Len(es) |->
                 IF j <= i THEN es[j]
                 ELSE IF j < Len(es) THEN es[j + 1]
                 ELSE es[j]],
     panicked |-> FALSE]

\* A call that returns r and writes nothing.
Pure(es, r) == [ret |-> r, mem |-> es, panicked |-> FALSE]

\* A slice expression out of range.
Panic(es) == [ret |-> <<>>, mem |-> es, panicked |-> TRUE]

\* A negative index counts from the end (lines 181-183 and 191-193).
FromEnd(es, i) == IF i < 0 THEN Len(es) + i ELSE i

\* The loop of the default case (lines 197-201): tmp is the map of indices.
RECURSIVE DeleteLoop(_, _, _, _)
DeleteLoop(es, tmp, i, v) ==
    IF i >= Len(es) THEN v
    ELSE IF i \notin tmp THEN DeleteLoop(es, tmp, i + 1, Append(v, es[i + 1]))
    ELSE DeleteLoop(es, tmp, i + 1, v)

Delete(es, index) ==
    IF Len(index) = 0 THEN Pure(es, es)
    ELSE IF Len(index) = 1
         THEN LET i == FromEnd(es, index[1])
              IN  IF Len(es) <= i THEN Pure(es, es)
                  ELSE IF i < 0 THEN Panic(es)
                  ELSE AppendOver(es, i)
         ELSE Pure(es, DeleteLoop(es, {FromEnd(es, index[j]) : j \in 1..Len(index)}, 0, <<>>))

\* DeleteAt stores the result through the pointer es (line 209).
DeleteAt(es, index) ==
    LET r == Delete(es, index)
    IN  IF r.panicked THEN r ELSE [r EXCEPT !.mem = r.ret]

\* elMap[e]++ for every e of delEs (lines 245-247).
RECURSIVE CountElems(_, _, _)
CountElems(delEs, j, elMap) ==
    IF j > Len(delEs) THEN elMap
    ELSE LET e == delEs[j]
         IN  IF e \in DOMAIN elMap
             THEN CountElems(delEs, j + 1, [elMap EXCEPT ![e] = @ + 1])
             ELSE CountElems(delEs, j + 1, elMap @@ (e :> 1))

\* The loop of the default case of DeleteElems (lines 249-258).
RECURSIVE DeleteElemsLoop(_, _, _, _)
DeleteElemsLoop(es, elMap, i, res) ==
    IF i > Len(es) THEN res
    ELSE IF es[i] \in DOMAIN elMap
         THEN LET n == elMap[es[i]] - 1
              IN  DeleteElemsLoop(es,
                      IF n = 0 THEN MapDelete(elMap, es[i])
                      ELSE [elMap EXCEPT ![es[i]] = n],
                      i + 1, res)
         ELSE DeleteElemsLoop(es, elMap, i + 1, Append(res, es[i]))

\* The loop of case 1 of DeleteElems (lines 237-242): the first i with
\* es[i] == delEs[0], as a Go index.
FirstIndexOf(es, e) ==
    IF e \in Range(es)
    THEN (CHOOSE i \in 1..Len(es) : es[i] = e /\ \A j \in 1..(i - 1) : es[j] # e) - 1
    ELSE -1

DeleteElems(es, delEs) ==
    IF Len(delEs) = 0 THEN Pure(es, es)
    ELSE IF Len(delEs) = 1
         THEN LET i == FirstIndexOf(es, delEs[1])
              IN  IF i >= 0 THEN AppendOver(es, i) ELSE Pure(es, es)
         ELSE Pure(es, DeleteElemsLoop(es, CountElems(delEs, 1, <<>>), 1, <<>>))

\* The indices the callers pass: in range, negative, and out of range both ways.
Indices == (-(MaxLen + 1))..MaxLen

CallDelete ==
    /\ call = "none"
    /\ \E es \in SeqsUpTo(Keys, MaxLen), index \in SeqsUpTo(Indices, MaxArgs) :
        /\ call' = "Delete"
        /\ args' = [es |-> es, index |-> index]
        /\ ret' = Delete(es, index).ret
        /\ panicked' = Delete(es, index).panicked
        /\ mem' = Delete(es, index).mem

CallDeleteAt ==
    /\ call = "none"
    /\ \E es \in SeqsUpTo(Keys, MaxLen), index \in SeqsUpTo(Indices, MaxArgs) :
        /\ call' = "DeleteAt"
        /\ args' = [es |-> es, index |-> index]
        /\ ret' = DeleteAt(es, index).ret
        /\ panicked' = DeleteAt(es, index).panicked
        /\ mem' = DeleteAt(es, index).mem

CallDeleteElems ==
    /\ call = "none"
    /\ \E es \in SeqsUpTo(Keys, MaxLen), delEs \in SeqsUpTo(Keys, MaxArgs) :
        /\ call' = "DeleteElems"
        /\ args' = [es |-> es, delEs |-> delEs]
        /\ ret' = DeleteElems(es, delEs).ret
        /\ panicked' = DeleteElems(es, delEs).panicked
        /\ mem' = DeleteElems(es, delEs).mem

NextDelete ==
    \/ CallDelete
    \/ CallDeleteAt
    \/ CallDeleteElems

SpecDelete == Init /\ [][NextDelete]_vars

\* C4: Delete(es, index...) and DeleteElems(es, delEs...) leave the caller's
\* slice as it was: after the call es holds the same elements at the same
\* positions, whatever the arguments.
C4_CallerSliceKept ==
    call \in {"Delete", "DeleteElems"} => mem = args.es

\* Reached: Delete with one index that is not the last position.
C4_Witness ==
    /\ call = "Delete"
    /\ Len(args.index) = 1
    /\ ~panicked
    /\ Len(ret) = Len(args.es) - 1
    /\ FromEnd(args.es, args.index[1]) < Len(args.es) - 1

\* ----------------------------------------------------------- Paginate
\* Go's int is 32 or 64 bits wide and its arithmetic wraps around (two's
\* complement).  The model takes the 32-bit int of the 32-bit targets; on the
\* 64-bit targets the same wrap-around happens at 2^64 instead of 2^32.
MaxInt == 2147483647
MinInt == -MaxInt - 1

\* The byte n (0 the lowest) of the two's complement representation of x.
ByteOf(x, n) == (x \div (256 ^ n)) % 256

\* The int whose four bytes are the low bytes of b0 + 256*b1 + 65536*b2 +
\* 16777216*b3, carries propagated and the carry out of the top byte dropped.
FromBytes(b0, b1, b2, b3) ==
    LET t1 == b1 + (b0 \div 256)
        t2 == b2 + (t1 \div 256)
        t3 == (b3 + (t2 \div 256)) % 256
    IN  (b0 % 256) + 256 * (t1 % 256) + 65536 * (t2 % 256)
        + 16777216 * (IF t3 >= 128 THEN t3 - 256 ELSE t3)

\* x * y on int.
MulInt(x, y) ==
    LET X(n) == ByteOf(x, n)
        Y(n) == ByteOf(y, n)
    IN  FromBytes(X(0) * Y(0),
                  X(0) * Y(1) + X(1) * Y(0),
                  X(0) * Y(2) + X(1) * Y(1) + X(2) * Y(0),
                  X(0) * Y(3) + X(1) * Y(2) + X(2) * Y(1) + X(3) * Y(0))

\* x + y on int.
AddInt(x, y) ==
    FromBytes(ByteOf(x, 0) + ByteOf(y, 0), ByteOf(x, 1) + ByteOf(y, 1),
              ByteOf(x, 2) + ByteOf(y, 2), ByteOf(x, 3) + ByteOf(y, 3))

\* es[start:end] with Go indices: it panics unless 0 <= start <= end <= cap(es),
\* and end is at most len(es) where Paginate evaluates it.
SliceExpr(es, start, end) ==
    IF 0 <= start /\ start <= end /\ end <= Len(es)
    THEN Pure(es, SubSeq(es, start + 1, end))
    ELSE Panic(es)

Paginate(es, pageNumber, showNumber) ==
    IF pageNumber <= 0 THEN Pure(es, <<>>)
    ELSE IF showNumber <= 0 THEN Pure(es, <<>>)
    ELSE LET start == MulInt(pageNumber - 1, showNumber)
             end == AddInt(start, showNumber)
         IN  IF start >= Len(es) THEN Pure(es, <<>>)
             ELSE SliceExpr(es, start, IF end > Len(es) THEN Len(es) ELSE end)

\* The page numbers and page sizes the callers pass: around zero, around the
\* length of the slice, and large.
PageNumbers == (-1..(MaxLen + 1)) \cup {32769, 65537, MaxInt, MinInt}
ShowNumbers == (-1..(MaxLen + 1)) \cup {65536, MaxInt, MinInt}

CallPaginate ==
    /\ call = "none"
    /\ \E es \in SeqsUpTo(Keys, MaxLen), pageNumber \in PageNumbers, showNumber \in ShowNumbers :
        /\ call' = "Paginate"
        /\ args' = [es |-> es, pageNumber |-> pageNumber, showNumber |-> showNumber]
        /\ ret' = Paginate(es, pageNumber, showNumber).ret
        /\ panicked' = Paginate(es, pageNumber, showNumber).panicked
        /\ mem' = Paginate(es, pageNumber, showNumber).mem

NextPaginate == CallPaginate

SpecPaginate == Init /\ [][NextPaginate]_vars

\* (pageNumber-1)*showNumber >= n over the integers, for pageNumber >= 1 and
\* showNumber >= 1, computed without forming the product.
StartBeyond(pageNumber, showNumber, n) ==
    n = 0 \/ (pageNumber - 1) > (n - 1) \div showNumber

\* What C6 says Paginate returns, start and end being integers.
PageExpected(es, pageNumber, showNumber) ==
    IF pageNumber <= 0 \/ showNumber <= 0 THEN <<>>
    ELSE IF StartBeyond(pageNumber, showNumber, Len(es)) THEN <<>>
    ELSE LET start == (pageNumber - 1) * showNumber
             end == IF showNumber >= Len(es) - start THEN Len(es) ELSE start + showNumber
         IN  SubSeq(es, start + 1, end)

\* C6: for every es and all integers pageNumber and showNumber, Paginate returns
\* the empty slice if pageNumber <= 0, showNumber <= 0 or start >= len(es), with
\* start = (pageNumber-1)*showNumber, and es[start .. min(start+showNumber,
\* len(es))) otherwise; the result is never longer than showNumber.
C6_PaginateWindow ==
    call = "Paginate" =>
        /\ ~panicked
        /\ ret = PageExpected(args.es, args.pageNumber, args.showNumber)
        /\ (ret # <<>> => Len(ret) <= args.showNumber)

\* Reached: a page that straddles the end of the slice.
C6_Witness ==
    /\ call = "Paginate"
    /\ ~panicked
    /\ ret # <<>>
    /\ Len(ret) < args.showNumber
    /\ args.pageNumber > 1

\* Where (pageNumber-1)*showNumber + showNumber fits an int, C6 describes what
\* Paginate returns.
FitsInt(pageNumber, showNumber) ==
    pageNumber <= 0 \/ showNumber <= 0 \/ pageNumber <= MaxInt \div showNumber

C6_WindowWhereNoOverflow ==
    (call = "Paginate" /\ FitsInt(args.pageNumber, args.showNumber)) =>
        /\ ~panicked
        /\ ret = PageExpected(args.es, args.pageNumber, args.showNumber)

\* ------------------------------------------------------- BothExistAny
\* The keys of the elements handed to BothExistAny.
BothKeys == {1, 2}

\* The elements of the slices handed to BothExistAny: the key, the slice the
\* element is in and its position there.
TL == [k : BothKeys, l : 1..MaxLists, i : 1..MaxInner]

KeyOfTL == [t \in TL |-> t.k]

\* [][]E whose keys are kss.
TaggedLists(kss) ==
    [l \in 1..Len(kss) |-> [i \in 1..Len(kss[l]) |-> [k |-> kss[l][i], l |-> l, i |-> i]]]

\* The inner loop (lines 447-451): kv[fn(t)] = t, a later element replacing an
\* earlier one with the same key.
RECURSIVE BothExistMap(_, _, _, _)
BothExistMap(e, fn, j, kv) ==
    IF j > Len(e) THEN kv
    ELSE BothExistMap(e, fn, j + 1, (fn[e[j]] :> e[j]) @@ kv)

\* The outer loop (lines 441-456): ei holds the maps built so far and idx is
\* the position in ei (from 1 here, from 0 in the source) of the smallest; an
\* empty slice ends the call (ok is FALSE).
RECURSIVE BothExistMaps(_, _, _, _, _)
BothExistMaps(es, fn, i, ei, idx) ==
    IF i > Len(es) THEN [ok |-> TRUE, ei |-> ei, idx |-> idx]
    ELSE IF Len(es[i]) = 0 THEN [ok |-> FALSE, ei |-> ei, idx |-> idx]
    ELSE LET kv == BothExistMap(es[i], fn, 1, <<>>)
             ei2 == Append(ei, kv)
         IN  BothExistMaps(es, fn, i + 1, ei2,
                 IF Cardinality(DOMAIN kv) < Cardinality(DOMAIN ei2[idx]) THEN i ELSE idx)

\* An InAll whose loop over the maps starts one map too late.
InAllButFirst(ei, idx, k) == \A i \in 2..Len(ei) : i = idx \/ k \in DOMAIN ei[i]

\* Lines 460-468: k is a key of every map but the driver's own.
InAll(ei, idx, k) == \A i \in 1..Len(ei) : i = idx \/ k \in DOMAIN ei[i]

\* The loop `for k := range ei[idx]` (lines 458-473): iter is the order in
\* which the runtime visits keys.
RECURSIVE BothExistRange(_, _, _, _, _)
BothExistRange(ei, idx, iter, j, v) ==
    IF j > Len(iter) THEN v
    ELSE LET k == iter[j]
         IN  IF k \in DOMAIN ei[idx] /\ InAll(ei, idx, k)
             THEN BothExistRange(ei, idx, iter, j + 1, Append(v, ei[idx][k]))
             ELSE BothExistRange(ei, idx, iter, j + 1, v)

BothExistAny(es, fn, iter) ==
    IF Len(es) = 0 THEN <<>>
    ELSE LET m == BothExistMaps(es, fn, 1, <<>>, 1)
         IN  IF m.ok THEN BothExistRange(m.ei, m.idx, iter, 1, <<>>) ELSE <<>>

BothExist(es, iter) == BothExistAny(es, Identity, iter)

KeyLists == SeqsUpTo(SeqsUpTo(BothKeys, MaxInner), MaxLists)

CallBothExistAny ==
    /\ call = "none"
    /\ \E kss \in KeyLists, iter \in Perms(BothKeys) :
        /\ call' = "BothExistAny"
        /\ args' = [es |-> TaggedLists(kss), kss |-> kss, tagged |-> TRUE]
        /\ ret' = BothExistAny(TaggedLists(kss), KeyOfTL, iter)
        /\ panicked' = FALSE
        /\ mem' = <<>>

CallBothExist ==
    /\ call = "none"
    /\ \E kss \in KeyLists, iter \in Perms(BothKeys) :
        /\ call' = "BothExist"
        /\ args' = [es |-> kss, kss |-> kss, tagged |-> FALSE]
        /\ ret' = BothExist(kss, iter)
        /\ panicked' = FALSE
        /\ mem' = <<>>

NextBothExist ==
    \/ CallBothExistAny
    \/ CallBothExist

SpecBothExist == Init /\ [][NextBothExist]_vars

\* The keys present in every one of the slices kss.
InEvery(kss) == {k \in BothKeys : \A l \in 1..Len(kss) : k \in Range(kss[l])}

\* C7: BothExistAny(es, fn) returns one element per key, the keys of the result
\* are exactly the keys present in every slice of es, whichever map drives the
\* iteration, and the result is empty if es is empty or holds an empty slice.
C7_BothExistKeys ==
    call \in {"BothExistAny", "BothExist"} =>
        /\ NoDupKeys(RetKeys)
        /\ Range(RetKeys) = (IF Len(args.kss) = 0 THEN {} ELSE InEvery(args.kss))
        /\ \A i \in 1..Len(ret) : \E l \in 1..Len(args.es) : ret[i] \in Range(args.es[l])
        /\ ((Len(args.kss) = 0 \/ \E l \in 1..Len(args.kss) : Len(args.kss[l]) = 0)
               => ret = <<>>)
        /\ LET fn == IF args.tagged THEN KeyOfTL ELSE Identity
               m == BothExistMaps(args.es, fn, 1, <<>>, 1)
           IN  (Len(args.es) > 0 /\ m.ok) =>
                   \A d \in 1..Len(m.ei), iter \in Perms(BothKeys) :
                       Range(KeysOf(BothExistRange(m.ei, d, iter, 1, <<>>), fn))
                           = InEvery(args.kss)

\* Reached: three slices, the smallest map not the first (so the driver is not
\* the first slice), a key of the first slice that is not in every slice, and
\* a non-empty result.
C7_Witness ==
    /\ call = "BothExistAny"
    /\ Len(args.kss) = 3
    /\ Cardinality(Range(args.kss[2])) < Cardinality(Range(args.kss[1]))
    /\ Range(args.kss[1]) # InEvery(args.kss)
    /\ ret # <<>>

\* ------------------------------------------------------------- Single
\* kn[e]++ for every e of s, kn a map[E]uint8 (lines 574-579).
RECURSIVE CountKeys(_, _, _)
CountKeys(s, j, kn) ==
    IF j > Len(s) THEN kn
    ELSE LET e == s[j]
         IN  IF e \in DOMAIN kn
             THEN CountKeys(s, j + 1, [kn EXCEPT ![e] = (@ + 1) % 256])
             ELSE CountKeys(s, j + 1, kn @@ (e :> 1))

\* The loop `for k, n := range kn` (lines 581-585): iter is the order in which
\* the runtime visits keys.
RECURSIVE SingleRange(_, _, _, _)
SingleRange(kn, iter, j, v) ==
    IF j > Len(iter) THEN v
    ELSE IF iter[j] \in DOMAIN kn /\ kn[iter[j]] = 1
         THEN SingleRange(kn, iter, j + 1, Append(v, iter[j]))
         ELSE SingleRange(kn, iter, j + 1, v)

\* A Single that counts the elements of a and b without Distinct.
SingleNoDistinct(a, b, iter) ==
    SingleRange(CountKeys(b, 1, CountKeys(a, 1, <<>>)), iter, 1, <<>>)

Single(a, b, iter) ==
    SingleRange(CountKeys(Distinct(b), 1, CountKeys(Distinct(a), 1, <<>>)), iter, 1, <<>>)

\* A Complete that only asks whether every value of a is in b.
CompleteOneSided(a, b, iter) == Len(SliceSub(a, b)) = 0

Complete(a, b, iter) == Len(Single(a, b, iter)) = 0

CallSingle ==
    /\ call = "none"
    /\ \E a \in SeqsUpTo(Keys, MaxOther), b \in SeqsUpTo(Keys, MaxOther), iter \in Perms(Keys) :
        /\ call' = "Single"
        /\ args' = [a |-> a, b |-> b]
        /\ ret' = Single(a, b, iter)
        /\ panicked' = FALSE
        /\ mem' = a

CallComplete ==
    /\ call = "none"
    /\ \E a \in SeqsUpTo(Keys, MaxOther), b \in SeqsUpTo(Keys, MaxOther), iter \in Perms(Keys) :
        /\ call' = "Complete"
        /\ args' = [a |-> a, b |-> b]
        /\ ret' = Complete(a, b, iter)
        /\ panicked' = FALSE
        /\ mem' = a

NextSingle ==
    \/ CallSingle
    \/ CallComplete

SpecSingle == Init /\ [][NextSingle]_vars

\* C8: Single(a, b) holds every value at most once and its values are exactly
\* those in one of set(a), set(b) and not the other, however often a value is
\* repeated in a or in b; Single(a, a) is empty.
C8_SingleSymDiff ==
    call = "Single" =>
        /\ NoDupKeys(ret)
        /\ Range(ret) = (Range(args.a) \ Range(args.b)) \cup (Range(args.b) \ Range(args.a))
        /\ (args.a = args.b => ret = <<>>)

\* Reached: a value repeated in a and absent from b, and a value of both.
C8_Witness ==
    /\ call = "Single"
    /\ ~NoDupKeys(args.a)
    /\ \E i, j \in 1..Len(args.a) : i # j /\ args.a[i] = args.a[j] /\ args.a[i] \in Range(ret)
    /\ Range(args.a) \cap Range(args.b) # {}

\* C9: Complete(a, b) is true exactly when a and b hold the same set of values,
\* whatever the order and the repetitions (either may be empty), and so
\* Complete(a, b) = Complete(b, a).
C9_CompleteSetEq ==
    call = "Complete" =>
        /\ ret = (Range(args.a) = Range(args.b))
        /\ \A iter \in Perms(Keys) : Complete(args.b, args.a, iter) = ret

\* Reached: Complete is true of two slices that differ in order and length.
C9_Witness ==
    /\ call = "Complete"
    /\ ret = TRUE
    /\ Len(args.a) # Len(args.b)
    /\ Cardinality(Range(args.a)) >= 2

\* ----------------------------------------------------- GetElemByIndex
\* The elements of the []int handed to GetElemByIndex.
IntElems == {0, 1, 2}

\* The error value nil, and errs.New(msg, kv...).Wrap(): the message and the
\* key-value pairs it carries.
Nil == <<>>
ErrsNew(msg, k1, v1, k2, v2) == <<msg, k1, v1, k2, v2>>

\* array[index] with a Go index: a run-time panic when it is out of range.
IndexExpr(array, index) ==
    IF 0 <= index /\ index < Len(array)
    THEN [ret |-> [val |-> array[index + 1], err |-> Nil], panicked |-> FALSE]
    ELSE [ret |-> [val |-> 0, err |-> Nil], panicked |-> TRUE]

\* A GetElemByIndex whose upper bound test is off by one.
GetElemByIndexOffByOne(array, index) ==
    IF index < 0 \/ index > Len(array)
    THEN [ret |-> [val |-> 0, err |-> ErrsNew("index out of range", "index", index, "array", array)],
          panicked |-> FALSE]
    ELSE IndexExpr(array, index)

GetElemByIndex(array, index) ==
    IF index < 0 \/ index >= Len(array)
    THEN [ret |-> [val |-> 0, err |-> ErrsNew("index out of range", "index", index, "array", array)],
          panicked |-> FALSE]
    ELSE IndexExpr(array, index)

CallGetElemByIndex ==
    /\ call = "none"
    /\ \E array \in SeqsUpTo(IntElems, MaxLen), index \in Indices \cup {MaxLen + 1, MaxInt, MinInt} :
        /\ call' = "GetElemByIndex"
        /\ args' = [array |-> array, index |-> index]
        /\ ret' = GetElemByIndex(array, index).ret
        /\ panicked' = GetElemByIndex(array, index).panicked
        /\ mem' = array

NextGetElem == CallGetElemByIndex

SpecGetElem == Init /\ [][NextGetElem]_vars

OutOfRange(array, index) == index < 0 \/ index >= Len(array)

\* C10: GetElemByIndex(array, index) returns the value 0 and an error carrying
\* the index and the array exactly when index < 0 or index >= len(array), and
\* array[index] with no error otherwise; it never panics.
C10_GetElemChecked ==
    call = "GetElemByIndex" =>
        /\ ~panicked
        /\ (ret.err # Nil) = OutOfRange(args.array, args.index)
        /\ (ret.err # Nil =>
               /\ ret.val = 0
               /\ ret.err[3] = args.index
               /\ ret.err[5] = args.array)
        /\ (ret.err = Nil => ret.val = args.array[args.index + 1])

\* Reached: the first index past the end of a non-empty array is refused.
C10_Witness ==
    /\ call = "GetElemByIndex"
    /\ Len(args.array) > 0
    /\ args.index = Len(args.array)
    /\ ret.err # Nil

\* ---------------------------------------------------------- the package
Next ==
    \/ NextSub
    \/ NextIntersect
    \/ NextOrder
    \/ NextDistinct
    \/ NextDelete
    \/ NextPaginate
    \/ NextBothExist
    \/ NextSingle
    \/ NextGetElem

Spec == Init /\ [][Next]_vars

============================================================================
